---- MODULE Spec2Model ----
(***************************************************************************)
(* Model of the Peugeot sales assistant backend (src/app.py):              *)
(*   - parse_price, fetch_all_cars (CAR_CACHE), get_available_cars         *)
(*   - the polling loop of chat()                                          *)
(* Strings on which the code works character by character (model names,   *)
(* price descriptions, filters) are sequences of one-character strings;    *)
(* strings the code only copies or compares whole are TLA+ strings.        *)
(* In price texts "L" and "V" stand for the Cyrillic letters of the BGN    *)
(* marker, "E" for the euro sign and "nbsp" for U+00A0.                    *)
(***************************************************************************)
EXTENDS Integers, Sequences, FiniteSets, TLC

\* ------------------------------------------------------------------------
\* Program constants
\* ------------------------------------------------------------------------
CACHE_TTL == 300
max_iterations == 30

\* ------------------------------------------------------------------------
\* Characters and strings
\* ------------------------------------------------------------------------
Digits == {"0", "1", "2", "3", "4", "5", "6", "7", "8", "9"}

\* what the regex class \s matches among the characters used here
Whitespace == {" ", "nbsp"}

DigitVal(c) ==
  CASE c = "0" -> 0 [] c = "1" -> 1 [] c = "2" -> 2 [] c = "3" -> 3
    [] c = "4" -> 4 [] c = "5" -> 5 [] c = "6" -> 6 [] c = "7" -> 7
    [] c = "8" -> 8 [] c = "9" -> 9

\* str.lower() on one character
LowerChar(c) ==
  CASE c = "G" -> "g" [] c = "T" -> "t" [] c = "N" -> "n" [] c = "A" -> "a"
    [] OTHER -> c

Lower(s) == [i \in 1..Len(s) |-> LowerChar(s[i])]

\* Python's  a in b  on strings
Contains(a, b) ==
  \E i \in 0..(Len(b) - Len(a)) : \A k \in 1..Len(a) : b[i + k] = a[k]

RECURSIVE LStrip(_)
LStrip(s) ==
  IF s # <<>> /\ Head(s) \in Whitespace THEN LStrip(Tail(s)) ELSE s

RECURSIVE RStrip(_)
RStrip(s) ==
  IF s # <<>> /\ s[Len(s)] \in Whitespace
    THEN RStrip(SubSeq(s, 1, Len(s) - 1))
    ELSE s

\* str.strip()
Strip(s) == RStrip(LStrip(s))

\* str.replace(' ', '').replace(',', '.')
RECURSIVE CleanPrice(_)
CleanPrice(s) ==
  IF s = <<>> THEN <<>>
  ELSE IF Head(s) = " " THEN CleanPrice(Tail(s))
  ELSE IF Head(s) = "," THEN <<".">> \o CleanPrice(Tail(s))
  ELSE <<Head(s)>> \o CleanPrice(Tail(s))

\* ------------------------------------------------------------------------
\* parse_price
\* ------------------------------------------------------------------------
\* A parsed price: positive infinity, or a number kept in hundredths.
PInf == [inf |-> TRUE, v |-> 0]
PNum(n) == [inf |-> FALSE, v |-> n]

PriceLess(a, b) == ~a.inf /\ (b.inf \/ a.v < b.v)

IsClassChar(c) == c \in Digits \/ c \in Whitespace \/ c = ","

\* end (exclusive) of the maximal run of [\d\s,] that starts at i
RECURSIVE RunEnd(_, _)
RunEnd(s, i) ==
  IF i <= Len(s) /\ IsClassChar(s[i]) THEN RunEnd(s, i + 1) ELSE i

\* re.search(r'([\d\s,]+)\s*LV', s) succeeds with its match starting at i
MatchesAt(s, i) ==
  /\ i \in 1..Len(s)
  /\ IsClassChar(s[i])
  /\ LET k == RunEnd(s, i)
     IN  k + 1 <= Len(s) /\ s[k] = "L" /\ s[k + 1] = "V"

HasMatch(s) == \E i \in 1..Len(s) : MatchesAt(s, i)

\* match.group(1): the greedy group of the leftmost match
Group1(s) ==
  LET i == CHOOSE j \in 1..Len(s) :
             MatchesAt(s, j) /\ \A h \in 1..(j - 1) : ~MatchesAt(s, h)
  IN  SubSeq(s, i, RunEnd(s, i) - 1)

RECURSIVE DigitsToNat(_, _)
DigitsToNat(s, acc) ==
  IF s = <<>> THEN acc ELSE DigitsToNat(Tail(s), 10 * acc + DigitVal(Head(s)))

AllDigits(s) == \A i \in 1..Len(s) : s[i] \in Digits

\* position of the first "." in s, 0 when there is none
DotAt(s) ==
  IF \E i \in 1..Len(s) : s[i] = "."
    THEN CHOOSE i \in 1..Len(s) : s[i] = "." /\ \A h \in 1..(i - 1) : s[h] # "."
    ELSE 0

\* float(x) accepts x: surrounding whitespace is stripped, then digits with at
\* most one point and at least one digit
FloatOk(x) ==
  LET t == Strip(x)
      d == DotAt(t)
  IN  IF d = 0 THEN t # <<>> /\ AllDigits(t)
      ELSE /\ AllDigits(SubSeq(t, 1, d - 1))
           /\ AllDigits(SubSeq(t, d + 1, Len(t)))
           /\ Len(t) > 1

\* the hundredths of a fraction given by its digits (further digits dropped)
Hundredths(f) ==
  IF Len(f) = 0 THEN 0
  ELSE IF Len(f) = 1 THEN 10 * DigitVal(f[1])
  ELSE 10 * DigitVal(f[1]) + DigitVal(f[2])

\* float(x), in hundredths
FloatVal(x) ==
  LET t == Strip(x)
      d == DotAt(t)
  IN  IF d = 0 THEN (10 * 10) * DigitsToNat(t, 0)
      ELSE (10 * 10) * DigitsToNat(SubSeq(t, 1, d - 1), 0)
           + Hundredths(SubSeq(t, d + 1, Len(t)))

\* a faulty variant of parse_price: a token float() rejects counts as 0
parse_price_zero(price_str) ==
  IF price_str = <<>> THEN PInf
  ELSE IF HasMatch(price_str)
    THEN LET price_clean == CleanPrice(Group1(price_str))
         IN  IF FloatOk(price_clean) THEN PNum(FloatVal(price_clean)) ELSE PNum(0)
    ELSE PInf

parse_price(price_str) ==
  IF price_str = <<>> THEN PInf
  ELSE IF HasMatch(price_str)
    THEN LET price_clean == CleanPrice(Group1(price_str))
         IN  IF FloatOk(price_clean) THEN PNum(FloatVal(price_clean)) ELSE PInf
    ELSE PInf

\* ------------------------------------------------------------------------
\* The feed and fetch_all_cars
\* ------------------------------------------------------------------------
\* A feed item <item> has five optional sub-elements.  A sub-element is absent,
\* present without text (ElementTree gives .text = None), or present with text.
Absent == "<absent>"
NoText == "<None>"
AbsentSeq == <<Absent>>
NoTextSeq == <<NoText>>

Item(av, ti, de, li, im) ==
  [availability |-> av, title |-> ti, description |-> de, link |-> li,
   image_link |-> im]

\* line 77
InStock(item) == item.availability = "in stock"

\* lines 83-84:  elem.text.strip() if elem is not None else "N/A"
TextOrNA(field) ==
  IF field = AbsentSeq THEN <<"N", "/", "A">> ELSE Strip(field)

\* lines 85-86:  elem.text if elem is not None else default
TextOrDefault(field, default) == IF field = Absent THEN default ELSE field

\* lines 88-93
CarData(item) ==
  [model |-> TextOrNA(item.title),
   price |-> TextOrNA(item.description),
   link |-> TextOrDefault(item.link, "#"),
   image_url |-> TextOrDefault(item.image_link, "")]

\* .text.strip() on an element without text raises AttributeError
ItemRaises(item) ==
  InStock(item) /\ (item.title = NoTextSeq \/ item.description = NoTextSeq)

\* lines 74-94: the loop over the items of a parsed feed
RECURSIVE CollectCars(_)
CollectCars(items) ==
  IF items = <<>> THEN <<>>
  ELSE IF InStock(Head(items))
    THEN <<CarData(Head(items))>> \o CollectCars(Tail(items))
    ELSE CollectCars(Tail(items))

\* The answer of the upstream feed to one GET: kind "ok" carries the items of
\* a well-formed document; the other kinds are the failures of lines 64-68.
Response(kind, items) == [kind |-> kind, items |-> items]

\* lines 64-94: the exception the fetch ends with ("none": it built all_cars)
FetchExc(resp) ==
  CASE resp.kind = "ConnectionError" -> "RequestException"
    [] resp.kind = "HTTPError" -> "RequestException"
    [] resp.kind = "ParseError" -> "ParseError"
    [] OTHER ->
         IF \E i \in 1..Len(resp.items) : ItemRaises(resp.items[i])
           THEN "AttributeError" ELSE "none"

Cache(ts, cars) == [timestamp |-> ts, cars |-> cars]

\* line 57
IsFresh(cache, now) == cache.cars # <<>> /\ now - cache.timestamp < CACHE_TTL

\* lines 96-97
Store(cache, now, all_cars) == Cache(now, all_cars)

\* fetch_all_cars run without interruption at time now, the feed answering resp
\* (resp is not used on a cache hit):
\*   exc: the exception raised ("none": returned), ret: the value returned,
\*   cache: CAR_CACHE afterwards, fetched: whether the feed was requested
fetch_all_cars(cache, now, resp) ==
  IF IsFresh(cache, now)
    THEN [exc |-> "none", ret |-> cache.cars, cache |-> cache, fetched |-> FALSE]
    ELSE IF FetchExc(resp) # "none"
      THEN [exc |-> FetchExc(resp), ret |-> <<>>, cache |-> cache,
            fetched |-> TRUE]
      ELSE LET all_cars == CollectCars(resp.items)
           IN  [exc |-> "none", ret |-> all_cars,
                cache |-> Store(cache, now, all_cars), fetched |-> TRUE]

\* ------------------------------------------------------------------------
\* get_available_cars
\* ------------------------------------------------------------------------
\* model_filter as decoded from the tool arguments: None, a string, or a value
\* of another JSON type (truthy: a non-zero number, a non-empty list, ...)
FNone == [type |-> "none", s |-> <<>>]
FStr(s) == [type |-> "str", s |-> s]
FOther == [type |-> "other", s |-> <<>>]

\* Python truthiness: `if model_filter:`
Truthy(f) == f.type = "other" \/ (f.type = "str" /\ f.s # <<>>)

\* line 113: one test of the comprehension
ModelMatches(f, car) == Contains(Lower(f.s), Lower(car.model))

\* lines 111-116; .lower() of a non-string raises once a car is tested
FilterRaises(f, all_cars) == Truthy(f) /\ f.type # "str" /\ all_cars # <<>>

RECURSIVE SelectMatching(_, _)
SelectMatching(f, cars) ==
  IF cars = <<>> THEN <<>>
  ELSE IF ModelMatches(f, Head(cars))
    THEN <<Head(cars)>> \o SelectMatching(f, Tail(cars))
    ELSE SelectMatching(f, Tail(cars))

FilterCars(f, all_cars) ==
  IF Truthy(f) /\ f.type = "str" THEN SelectMatching(f, all_cars) ELSE all_cars

\* lines 119-124: a copy of each car with its numeric price
Processed(cars) ==
  [i \in 1..Len(cars) |-> [car |-> cars[i], numeric_price |-> parse_price(cars[i].price)]]

\* a faulty variant of InsertByPrice: x goes before the elements with its own key (the
\* sort is not stable)
RECURSIVE InsertBeforeEqual(_, _)
InsertBeforeEqual(s, x) ==
  IF s = <<>> THEN <<x>>
  ELSE IF ~PriceLess(Head(s).numeric_price, x.numeric_price)
    THEN <<x>> \o s
    ELSE <<Head(s)>> \o InsertBeforeEqual(Tail(s), x)

\* sorted(..., key=numeric_price) is stable: x goes after every element whose
\* key is not greater than its own
RECURSIVE InsertByPrice(_, _)
InsertByPrice(s, x) ==
  IF s = <<>> THEN <<x>>
  ELSE IF PriceLess(x.numeric_price, Head(s).numeric_price)
    THEN <<x>> \o s
    ELSE <<Head(s)>> \o InsertByPrice(Tail(s), x)

RECURSIVE SortedByPrice(_)
SortedByPrice(s) ==
  IF s = <<>> THEN <<>>
  ELSE InsertByPrice(SortedByPrice(SubSeq(s, 1, Len(s) - 1)), s[Len(s)])

\* lines 130-133: the first two, without numeric_price
FinalCars(sorted_cars) ==
  LET top == SubSeq(sorted_cars, 1, IF Len(sorted_cars) < 2 THEN Len(sorted_cars) ELSE 2)
  IN  [i \in 1..Len(top) |-> top[i].car]

Summary(kind, f) == [kind |-> kind, arg |-> f.s]

\* a faulty variant of SuccessSummary: the empty result never names the filter
SuccessSummaryPlain(f, final_cars) ==
  IF final_cars = <<>>
    THEN Summary("no_cars", FNone)
    ELSE IF Truthy(f) THEN Summary("cars_for", f) ELSE Summary("cars", FNone)

\* lines 137-149
SuccessSummary(f, final_cars) ==
  IF final_cars = <<>>
    THEN IF Truthy(f) THEN Summary("no_cars_for", f) ELSE Summary("no_cars", FNone)
    ELSE IF Truthy(f) THEN Summary("cars_for", f) ELSE Summary("cars", FNone)

Result(raised, summary, cars) ==
  [raised |-> raised, summary |-> summary, cars |-> cars]

\* a faulty variant of HandleException: no `except Exception` clause
HandleExceptionNoCatchAll(exc) ==
  CASE exc = "RequestException" ->
         Result("none", Summary("error_network", FNone), <<>>)
    [] exc = "ParseError" ->
         Result("none", Summary("error_xml", FNone), <<>>)
    [] OTHER ->
         Result(exc, Summary("", FNone), <<>>)

\* lines 159-175: the except clauses, by the class of the exception
HandleException(exc) ==
  CASE exc = "RequestException" ->
         Result("none", Summary("error_network", FNone), <<>>)
    [] exc = "ParseError" ->
         Result("none", Summary("error_xml", FNone), <<>>)
    [] OTHER ->
         Result("none", Summary("error_unexpected", FNone), <<>>)

\* get_available_cars(model_filter), fetch_all_cars having ended as `fetched`
get_available_cars(model_filter, fetched) ==
  IF fetched.exc # "none" THEN HandleException(fetched.exc)
  ELSE IF FilterRaises(model_filter, fetched.ret)
    THEN HandleException("AttributeError")
    ELSE LET final_cars ==
               FinalCars(SortedByPrice(Processed(FilterCars(model_filter, fetched.ret))))
         IN  Result("none", SuccessSummary(model_filter, final_cars), final_cars)

\* a faulty variant of CachedCar: line 122 writes to the dict of the snapshot
CachedCarWithKey(car) ==
  [model |-> car.model, price |-> car.price, link |-> car.link,
   image_url |-> car.image_url, numeric_price |-> parse_price(car.price)]

\* lines 121-122 as they leave the dict `car` of the snapshot: numeric_price
\* is set on car.copy(), so the dict itself is not written
CachedCar(car) == car

\* The dicts of the list fetch_all_cars returned (the list object stored in
\* CAR_CACHE, lines 59 and 97-99) after the call of get_available_cars: the
\* loop of lines 120-124 goes over the dicts the filter kept.
SnapshotAfter(model_filter, fetched) ==
  IF fetched.exc # "none" \/ FilterRaises(model_filter, fetched.ret)
    THEN fetched.cache.cars
    ELSE [i \in 1..Len(fetched.ret) |->
            IF (Truthy(model_filter) /\ model_filter.type = "str")
                 => ModelMatches(model_filter, fetched.ret[i])
              THEN CachedCar(fetched.ret[i])
              ELSE fetched.ret[i]]

\* ------------------------------------------------------------------------
\* Inputs
\* ------------------------------------------------------------------------
\* model names
M208 == <<"2", "0", "8">>
M208GT == <<"2", "0", "8", " ", "G", "T">>
M3008 == <<" ", "3", "0", "0", "8">>

\* price descriptions
P950 == <<"5", " ", "E", " ", "/", " ", "9", ",", "5", "0", " ", "L", "V", ".">>
P950b == <<"9", ",", "5", " ", "L", "V">>
P700 == <<"7", " ", "L", "V">>
P1050 == <<"1", " ", "0", ",", "5", "L", "V">>
PNoMarker == <<"4", " ", "E">>
PTwoCommas == <<"1", ",", "2", ",", "3", " ", "L", "V">>
PNbsp == <<"1", "nbsp", "2", " ", "L", "V">>

ItemPool ==
  { Item("in stock", M208, P950, "u1", "i1"),
    Item("in stock", M208GT, P700, "u2", Absent),
    Item("in stock", M3008, P950b, Absent, "i3"),
    Item("in stock", M208GT, PNoMarker, "u4", "i4"),
    Item("in stock", AbsentSeq, AbsentSeq, "u5", "i5"),
    Item("out of stock", M208, P700, "u6", "i6") }

\* the filters a tool call can carry
Filters ==
  { FNone, FStr(<<>>), FStr(<<"2", "0", "8">>), FStr(<<"g", "t">>),
    FStr(<<"G", "T">>), FStr(<<"0", "8">>), FStr(<<"x">>), FOther }

\* the feeds the cache is exercised with: two different stocks and an empty one
FeedA == <<Item("in stock", M208, P950, "u1", "i1")>>
FeedB == <<Item("in stock", M208GT, P700, "u2", Absent),
           Item("in stock", M208, P950, "u1", "i1")>>
FeedNone == <<Item("out of stock", M208, P700, "u6", "i6")>>

CacheResponses ==
  { Response("ok", FeedA), Response("ok", FeedB), Response("ok", FeedNone),
    Response("ConnectionError", <<>>), Response("ParseError", <<>>) }

\* ------------------------------------------------------------------------
\* State
\* ------------------------------------------------------------------------
VARIABLES
  CAR_CACHE,   \* the module-level cache, line 30
  clock,       \* time.time()
  writer,      \* history: which fetch stored each field of CAR_CACHE
  pc,          \* per thread: its place in fetch_all_cars
  now,         \* per thread: the local `now` of line 56
  all_cars,    \* per thread: the local all_cars of line 74
  ret,         \* per thread: the value returned
  seen,        \* per thread, history: the fetch whose timestamp line 57 read
  calls,       \* per thread: calls of fetch_all_cars made so far
  ticks,       \* clock advances so far
  q,           \* one call of get_available_cars: its inputs and its result
  cpc,             \* chat(): the place of the turn
  is_new_thread,   \* chat(): line 289
  run_status,      \* chat(): run.status
  iteration,       \* chat(): line 342
  car_data_result, \* chat(): line 340
  response,        \* chat(): what the turn returned
  transcript,      \* the rows of chat_messages written by the turn
  remote,          \* history: the calls the turn made to the assistant service
  queries,         \* history: calls of get_available_cars made by the turn
  answers,         \* history: what the queries of the turn returned
  scen             \* history: how far the statuses seen follow the tool-call scenario

cacheVars == <<CAR_CACHE, clock, writer, pc, now, all_cars, ret, seen, calls, ticks>>
queryVars == <<q>>
chatVars ==
  <<cpc, is_new_thread, run_status, iteration, car_data_result, response,
    transcript, remote, queries, answers, scen>>
vars == <<cacheVars, queryVars, chatVars>>

\* ------------------------------------------------------------------------
\* Bounds
\* ------------------------------------------------------------------------
NumThreads == 2
MaxCalls == 2
MaxTicks == 3

Threads == 1..NumThreads

\* the steps by which time passes between two events
TickSteps == {1, CACHE_TTL - 1}

NoTag == <<0, 0>>
Tag(t) == <<t, calls[t]>>
NoRet == [cars |-> <<>>, by |-> NoTag, set |-> FALSE]

NoFetch == [exc |-> "none", ret |-> <<>>, fetched |-> FALSE]
NoResult == Result("none", Summary("", FNone), <<>>)
NoQuery ==
  [phase |-> "none", model_filter |-> FNone, resp |-> Response("", <<>>),
   fetch |-> NoFetch, result |-> NoResult]

\* ------------------------------------------------------------------------
\* chat(): values
\* ------------------------------------------------------------------------
\* the statuses of a run
Statuses ==
  {"queued", "in_progress", "requires_action", "completed", "failed",
   "expired", "cancelled"}

\* line 344
NonTerminal == {"queued", "in_progress", "requires_action"}

NoResponse == [kind |-> "", text |-> Summary("", FNone), cars |-> <<>>, http |-> 0]
\* the latest pass of the loop, when it saw requires_action: the tool calls
\* the run was waiting for, the tool_call_id of each output built, and what became
\* of submit_tool_outputs ("sent", "failed": it raised, "skipped": not called)
Cycle(tool_calls, answered, submit) ==
  [tool_calls |-> tool_calls, answered |-> answered, submit |-> submit]
NoCycle == Cycle(<<>>, <<>>, "")

NoRemote ==
  [threads |-> 0, messages |-> 0, runs |-> 0, retrievals |-> 0, submits |-> 0,
   lists |-> 0, cycle |-> NoCycle]

\* what the queries of a turn returned: the result of the latest one, and
\* whether one before it returned listings
NoAnswers == [last |-> NoResult, earlier_cars |-> FALSE]

\* no turn is being handled
ChatIdle ==
  /\ cpc = "idle"
  /\ is_new_thread = FALSE
  /\ run_status = ""
  /\ iteration = 0
  /\ car_data_result = NoResult
  /\ response = NoResponse
  /\ transcript = <<>>
  /\ remote = NoRemote
  /\ queries = 0
  /\ answers = NoAnswers
  /\ scen = "off"

\* ------------------------------------------------------------------------
\* fetch_all_cars, one shared-memory access per step
\* ------------------------------------------------------------------------
Init ==
  /\ CAR_CACHE = Cache(0, <<>>)
  /\ clock = CACHE_TTL
  /\ writer = [timestamp |-> NoTag, cars |-> NoTag]
  /\ pc = [t \in Threads |-> "idle"]
  /\ now = [t \in Threads |-> 0]
  /\ all_cars = [t \in Threads |-> <<>>]
  /\ ret = [t \in Threads |-> NoRet]
  /\ seen = [t \in Threads |-> NoTag]
  /\ calls = [t \in Threads |-> 0]
  /\ ticks = 0
  /\ q = NoQuery
  /\ ChatIdle

\* line 56
Call(t) ==
  /\ pc[t] = "idle"
  /\ calls[t] < MaxCalls
  /\ calls' = [calls EXCEPT ![t] = @ + 1]
  /\ now' = [now EXCEPT ![t] = clock]
  /\ all_cars' = [all_cars EXCEPT ![t] = <<>>]
  /\ ret' = [ret EXCEPT ![t] = NoRet]
  /\ seen' = [seen EXCEPT ![t] = NoTag]
  /\ pc' = [pc EXCEPT ![t] = "L57"]
  /\ UNCHANGED <<CAR_CACHE, clock, writer, ticks>>
  /\ UNCHANGED <<queryVars, chatVars>>

\* line 57, left operand: CAR_CACHE["cars"]
ReadCars(t) ==
  /\ pc[t] = "L57"
  /\ pc' = [pc EXCEPT ![t] = IF CAR_CACHE.cars # <<>> THEN "L57ts" ELSE "L64"]
  /\ UNCHANGED <<CAR_CACHE, clock, writer, now, all_cars, ret, seen, calls, ticks>>
  /\ UNCHANGED <<queryVars, chatVars>>

\* line 57, right operand: now - CAR_CACHE["timestamp"] < CACHE_TTL
ReadTimestamp(t) ==
  /\ pc[t] = "L57ts"
  /\ seen' = [seen EXCEPT ![t] = writer.timestamp]
  /\ pc' = [pc EXCEPT ![t] =
              IF now[t] - CAR_CACHE.timestamp < CACHE_TTL THEN "L59" ELSE "L64"]
  /\ UNCHANGED <<CAR_CACHE, clock, writer, now, all_cars, ret, calls, ticks>>
  /\ UNCHANGED <<queryVars, chatVars>>

\* line 59
ReturnCached(t) ==
  /\ pc[t] = "L59"
  /\ ret' = [ret EXCEPT ![t] = [cars |-> CAR_CACHE.cars, by |-> writer.cars, set |-> TRUE]]
  /\ pc' = [pc EXCEPT ![t] = "hit"]
  /\ UNCHANGED <<CAR_CACHE, clock, writer, now, all_cars, seen, calls, ticks>>
  /\ UNCHANGED <<queryVars, chatVars>>

\* a faulty variant of SendRequest: the timestamp is stored before the answer is there
SendRequestStampsFirst(t) ==
  /\ pc[t] = "L64"
  /\ CAR_CACHE' = [CAR_CACHE EXCEPT !.timestamp = now[t]]
  /\ pc' = [pc EXCEPT ![t] = "L65"]
  /\ UNCHANGED <<clock, writer, now, all_cars, ret, seen, calls, ticks>>
  /\ UNCHANGED <<queryVars, chatVars>>

\* line 64: the GET leaves
SendRequest(t) ==
  /\ pc[t] = "L64"
  /\ pc' = [pc EXCEPT ![t] = "L65"]
  /\ UNCHANGED <<CAR_CACHE, clock, writer, now, all_cars, ret, seen, calls, ticks>>
  /\ UNCHANGED <<queryVars, chatVars>>

\* lines 64-94: the answer arrives and is parsed, or the fetch raises
ReceiveResponse(t) ==
  /\ pc[t] = "L65"
  /\ \E resp \in CacheResponses :
       IF FetchExc(resp) # "none"
         THEN /\ pc' = [pc EXCEPT ![t] = "raised"]
              /\ UNCHANGED all_cars
         ELSE /\ pc' = [pc EXCEPT ![t] = "L96"]
              /\ all_cars' = [all_cars EXCEPT ![t] = CollectCars(resp.items)]
  /\ UNCHANGED <<CAR_CACHE, clock, writer, now, ret, seen, calls, ticks>>
  /\ UNCHANGED <<queryVars, chatVars>>

\* line 96
StoreTimestamp(t) ==
  /\ pc[t] = "L96"
  /\ CAR_CACHE' = [CAR_CACHE EXCEPT !.timestamp = now[t]]
  /\ writer' = [writer EXCEPT !.timestamp = Tag(t)]
  /\ pc' = [pc EXCEPT ![t] = "L97"]
  /\ UNCHANGED <<clock, now, all_cars, ret, seen, calls, ticks>>
  /\ UNCHANGED <<queryVars, chatVars>>

\* lines 97-99
StoreCars(t) ==
  /\ pc[t] = "L97"
  /\ CAR_CACHE' = [CAR_CACHE EXCEPT !.cars = all_cars[t]]
  /\ writer' = [writer EXCEPT !.cars = Tag(t)]
  /\ ret' = [ret EXCEPT ![t] = [cars |-> all_cars[t], by |-> Tag(t), set |-> TRUE]]
  /\ pc' = [pc EXCEPT ![t] = "fetched"]
  /\ UNCHANGED <<clock, now, all_cars, seen, calls, ticks>>
  /\ UNCHANGED <<queryVars, chatVars>>

\* the caller takes the result (or the exception) and the thread is free again
Leave(t) ==
  /\ pc[t] \in {"hit", "fetched", "raised"}
  /\ pc' = [pc EXCEPT ![t] = "idle"]
  /\ now' = [now EXCEPT ![t] = 0]
  /\ all_cars' = [all_cars EXCEPT ![t] = <<>>]
  /\ ret' = [ret EXCEPT ![t] = NoRet]
  /\ seen' = [seen EXCEPT ![t] = NoTag]
  /\ UNCHANGED <<CAR_CACHE, clock, writer, calls, ticks>>
  /\ UNCHANGED <<queryVars, chatVars>>

Tick ==
  /\ ticks < MaxTicks
  /\ \E d \in TickSteps : clock' = clock + d
  /\ ticks' = ticks + 1
  /\ UNCHANGED <<CAR_CACHE, writer, pc, now, all_cars, ret, seen, calls>>
  /\ UNCHANGED <<queryVars, chatVars>>

Next ==
  \/ \E t \in Threads : Call(t)
  \/ \E t \in Threads : ReadCars(t)
  \/ \E t \in Threads : ReadTimestamp(t)
  \/ \E t \in Threads : ReturnCached(t)
  \/ \E t \in Threads : SendRequest(t)
  \/ \E t \in Threads : ReceiveResponse(t)
  \/ \E t \in Threads : StoreTimestamp(t)
  \/ \E t \in Threads : StoreCars(t)
  \/ \E t \in Threads : Leave(t)
  \/ Tick

\* chat turns served by concurrent threads
Spec == Init /\ [][Next]_vars

InFlight == {t \in Threads : pc[t] = "L65"}

\* one call of fetch_all_cars at a time: thread t moves only while no other
\* thread is inside the function
Alone(t) == \A u \in Threads \ {t} : pc[u] = "idle"

NextSeq ==
  \/ \E t \in Threads : Alone(t) /\ Call(t)
  \/ \E t \in Threads : Alone(t) /\ ReadCars(t)
  \/ \E t \in Threads : Alone(t) /\ ReadTimestamp(t)
  \/ \E t \in Threads : Alone(t) /\ ReturnCached(t)
  \/ \E t \in Threads : Alone(t) /\ SendRequest(t)
  \/ \E t \in Threads : Alone(t) /\ ReceiveResponse(t)
  \/ \E t \in Threads : Alone(t) /\ StoreTimestamp(t)
  \/ \E t \in Threads : Alone(t) /\ StoreCars(t)
  \/ \E t \in Threads : Alone(t) /\ Leave(t)
  \/ Tick

\* chat turns served one after the other
SpecSeq == Init /\ [][NextSeq]_vars

\* ------------------------------------------------------------------------
\* Claims about the feed cache
\* ------------------------------------------------------------------------
\* C1: concurrent cache misses are serialized: never two upstream fetches in
\* flight at once, and a fetch that started earlier never replaces the
\* timestamp stored by a fetch that started later (the stored timestamp, the
\* start time of the storing fetch, never goes back).
C1_SerializedFetches ==
  /\ [](Cardinality(InFlight) <= 1)
  /\ [][CAR_CACHE'.timestamp >= CAR_CACHE.timestamp]_vars

\* the calls that are about to read a field of the cache
Readers == {t \in Threads : pc[t] \in {"L57", "L57ts", "L59"}}

\* C2: whenever a call is about to read the cache, the cached timestamp and
\* the cached listings were stored by the same fetch, and a call that passed
\* the freshness check returns the listings of the fetch whose timestamp it
\* checked.
C2_ConsistentSnapshot ==
  /\ Readers # {} => writer.timestamp = writer.cars
  /\ \A t \in Threads : pc[t] = "hit" => ret[t].by = seen[t]

\* C3: with calls made one after the other, a call made less than CACHE_TTL
\* after the stored fetch time of a successfully stored snapshot sends no
\* request (so the two calls make one fetch in total), and a call served from
\* the cache is never CACHE_TTL or more after the stored fetch time (such a
\* call fetches again).
C3_OneFetchPerTTL ==
  \A t \in Threads :
    /\ (pc[t] = "L64" /\ CAR_CACHE.timestamp # 0)
         => now[t] - CAR_CACHE.timestamp >= CACHE_TTL
    /\ pc[t] = "L59" => now[t] - CAR_CACHE.timestamp < CACHE_TTL

\* C4: a call whose fetch fails changes neither field of the cache at any of
\* its steps, ends by raising without a return value (the stale snapshot is
\* not handed out), and after the failure does nothing but leave: it sends no
\* second request.
C4_FailedFetchKeepsCache ==
  [][\A t \in Threads :
       /\ pc[t] \in {"L57", "L57ts", "L59", "L64", "L65"} => CAR_CACHE' = CAR_CACHE
       /\ pc'[t] = "raised" => ~ret'[t].set
       /\ pc[t] = "raised" => pc'[t] \in {"raised", "idle"}]_vars

\* a fetch failed while a snapshot stored earlier is in the cache
C4_Witness ==
  \E t \in Threads : pc[t] = "raised" /\ CAR_CACHE.cars # <<>> /\ calls[t] = 2

\* ------------------------------------------------------------------------
\* get_available_cars on drawn inputs
\* ------------------------------------------------------------------------
MaxFeedLen == 3

SeqsUpTo(S, n) == UNION {[1..k -> S] : k \in 0..n}

\* every feed of at most MaxFeedLen items
Feeds == SeqsUpTo(ItemPool, MaxFeedLen)

\* an in-stock item whose <g:title/> has no text
ItemNoTitleText == Item("in stock", NoTextSeq, P700, "u7", "i7")

\* an in-stock item whose <g:link/> and <g:image_link/> have no text
ItemNoLinkText == Item("in stock", M208, P700, NoText, NoText)

FeedResponses ==
  {Response("ok", feed) : feed \in Feeds}
    \cup {Response("ok", <<Item("in stock", M208, P950, "u1", "i1"), ItemNoTitleText>>),
          Response("ok", <<ItemNoLinkText, Item("in stock", M208, P950, "u1", "i1")>>),
          Response("ConnectionError", <<>>), Response("HTTPError", <<>>),
          Response("ParseError", <<>>)}

\* the snapshots a successful fetch can have left in the cache
Snapshots == {CollectCars(feed) : feed \in Feeds}

QueryInput(cache, time, resp, f) ==
  [cache |-> cache, now |-> time, resp |-> resp, model_filter |-> f]

\* the calls examined: any answer of the feed on the cache as the program
\* starts, and the answers of CacheResponses on a cache holding any snapshot,
\* CACHE_TTL - 1 and CACHE_TTL after it was stored
QueryInputs ==
  {QueryInput(Cache(0, <<>>), CACHE_TTL, resp, f) :
     resp \in FeedResponses, f \in Filters}
  \cup
  {QueryInput(Cache(CACHE_TTL, snap), CACHE_TTL + age, resp, f) :
     snap \in Snapshots, age \in {CACHE_TTL - 1, CACHE_TTL},
     resp \in CacheResponses, f \in Filters}

InitQuery ==
  /\ \E inp \in QueryInputs :
       /\ CAR_CACHE = inp.cache
       /\ clock = inp.now
       /\ q = [phase |-> "input", model_filter |-> inp.model_filter,
               resp |-> inp.resp, fetch |-> NoFetch, result |-> NoResult]
  /\ writer = [timestamp |-> NoTag, cars |-> NoTag]
  /\ pc = [t \in Threads |-> "idle"]
  /\ now = [t \in Threads |-> 0]
  /\ all_cars = [t \in Threads |-> <<>>]
  /\ ret = [t \in Threads |-> NoRet]
  /\ seen = [t \in Threads |-> NoTag]
  /\ calls = [t \in Threads |-> 0]
  /\ ticks = 0
  /\ ChatIdle

\* lines 102-175: one call get_available_cars(model_filter)
Query ==
  /\ q.phase = "input"
  /\ LET r == fetch_all_cars(CAR_CACHE, clock, q.resp)
     IN  /\ CAR_CACHE' = [r.cache EXCEPT !.cars = SnapshotAfter(q.model_filter, r)]
         /\ q' = [q EXCEPT !.phase = "done",
                           !.fetch = [exc |-> r.exc, ret |-> r.ret, fetched |-> r.fetched],
                           !.result = get_available_cars(q.model_filter, r)]
  /\ UNCHANGED <<clock, writer, pc, now, all_cars, ret, seen, calls, ticks>>
  /\ UNCHANGED chatVars

NextQuery == Query

SpecQuery == InitQuery /\ [][NextQuery]_vars

\* ------------------------------------------------------------------------
\* Claims about the inventory query
\* ------------------------------------------------------------------------
ErrorKinds == {"error_network", "error_xml", "error_unexpected"}
SummaryKinds == ErrorKinds \cup {"no_cars_for", "no_cars", "cars_for", "cars"}

IsListingSeq(cars) ==
  \A i \in 1..Len(cars) :
    DOMAIN cars[i] = {"model", "price", "link", "image_url"}

\* C5: get_available_cars never raises: whatever the fetch did (network
\* failure, malformed XML, any other exception) and whatever the filter, it
\* returns a summary and a listing sequence, a failed fetch gives an error
\* summary, and every error summary comes with an empty listing sequence.
C5_QueryNeverRaises ==
  q.phase = "done" =>
    /\ q.result.raised = "none"
    /\ q.result.summary.kind \in SummaryKinds
    /\ IsListingSeq(q.result.cars)
    /\ q.fetch.exc # "none" => q.result.summary.kind \in ErrorKinds
    /\ q.result.summary.kind \in ErrorKinds => q.result.cars = <<>>

\* an exception that is neither a network nor a parse failure was handled
C5_Witness ==
  /\ q.phase = "done"
  /\ q.fetch.exc = "AttributeError"
  /\ q.result.summary.kind = "error_unexpected"

\* a filter was supplied: the argument is there and is not the empty string
Supplied(f) == f # FNone /\ f # FStr(<<>>)

\* the places in the snapshot of the listings the filter retains
Matching(f, cars) ==
  {i \in 1..Len(cars) : Supplied(f) => Contains(Lower(f.s), Lower(cars[i].model))}

\* listing i comes before listing j in the ranking: cheaper, or as cheap and
\* earlier in the feed
Before(cars, i, j) ==
  LET a == parse_price(cars[i].price)
      b == parse_price(cars[j].price)
  IN  PriceLess(a, b) \/ (~PriceLess(b, a) /\ i < j)

Rank(f, cars, i) ==
  Cardinality({j \in Matching(f, cars) : Before(cars, j, i)})

\* the query succeeded: the fetch returned and the filter is a string or absent
QuerySucceeded ==
  q.phase = "done" /\ q.fetch.exc = "none" /\ q.model_filter.type # "other"

\* C6: at most 2 listings, in ascending order of parsed price, each matching
\* the filter case-insensitively, and the k-th returned listing is the
\* matching listing that exactly k-1 matching listings come before in the
\* ranking by (price, feed position).
C6_TopTwoCheapest ==
  QuerySucceeded =>
    LET cars == q.fetch.ret
        f == q.model_filter
        out == q.result.cars
        m == Matching(f, cars)
    IN  /\ Len(out) <= 2
        /\ Len(out) = IF Cardinality(m) < 2 THEN Cardinality(m) ELSE 2
        /\ \A k \in 1..Len(out) :
             \E i \in m : Rank(f, cars, i) = k - 1 /\ out[k] = cars[i]
        /\ \A k \in 1..(Len(out) - 1) :
             ~PriceLess(parse_price(out[k + 1].price), parse_price(out[k].price))
        /\ \A k \in 1..Len(out) :
             Supplied(f) => Contains(Lower(f.s), Lower(out[k].model))

\* three listings match the filter, the two returned have the same price and
\* differ, and the one left out is dearer
C6_Witness ==
  /\ QuerySucceeded
  /\ q.model_filter = FStr(<<"0", "8">>)
  /\ Cardinality(Matching(q.model_filter, q.fetch.ret)) = 3
  /\ Len(q.result.cars) = 2
  /\ parse_price(q.result.cars[1].price) = parse_price(q.result.cars[2].price)
  /\ q.result.cars[1] # q.result.cars[2]
  /\ \E i \in 1..Len(q.fetch.ret) :
       PriceLess(parse_price(q.result.cars[2].price), parse_price(q.fetch.ret[i].price))

\* C7: the summary of a successful query follows from whether the result is
\* empty and whether a filter was supplied: no listing matching a supplied
\* filter gives an empty result with the "none for <filter>" summary, an
\* empty result without filter the plain "none" summary, and a non-empty
\* result the "here are the cars" summary (with the filter when supplied).
C7_SummaryVariants ==
  QuerySucceeded =>
    LET f == q.model_filter
        out == q.result.cars
        sum == q.result.summary
    IN  /\ (Supplied(f) /\ Matching(f, q.fetch.ret) = {})
             => out = <<>> /\ sum = Summary("no_cars_for", f)
        /\ (out = <<>> /\ Supplied(f)) => sum = Summary("no_cars_for", f)
        /\ (out = <<>> /\ ~Supplied(f)) => sum = Summary("no_cars", FNone)
        /\ (out # <<>> /\ Supplied(f)) => sum = Summary("cars_for", f)
        /\ (out # <<>> /\ ~Supplied(f)) => sum = Summary("cars", FNone)

\* a filter for a model that the non-empty snapshot does not hold
C7_Witness ==
  /\ QuerySucceeded
  /\ q.model_filter = FStr(<<"x">>)
  /\ q.fetch.ret # <<>>
  /\ q.result.summary = Summary("no_cars_for", FStr(<<"x">>))

\* ------------------------------------------------------------------------
\* chat(): one turn
\* ------------------------------------------------------------------------
CountCap == 2

\* history counters count up to CountCap ("CountCap or more")
Bump(n) == IF n < CountCap THEN n + 1 ELSE n

\* tool_call.function.arguments: the text of a JSON object, whose model_filter
\* is FNone when the key is missing; of another JSON value; or no JSON at all
Args(json, f) == [json |-> json, model_filter |-> f]

ToolCall(id, name, arguments) == [id |-> id, name |-> name, arguments |-> arguments]

InvCall(id, arguments) == ToolCall(id, "get_available_cars", arguments)

ArgNone == Args("object", FNone)
Arg208 == Args("object", FStr(<<"2", "0", "8">>))
ArgOther == Args("object", FOther)

\* run.required_action.submit_tool_outputs.tool_calls: the batches a run
\* pauses with
ToolCallLists ==
  { <<InvCall("call_1", ArgNone)>>,
    <<InvCall("call_1", Arg208)>>,
    <<InvCall("call_1", ArgOther)>>,
    <<InvCall("call_1", Args("array", FNone))>>,
    <<InvCall("call_1", Args("invalid", FNone))>>,
    <<ToolCall("call_1", "other_function", ArgNone)>>,
    <<InvCall("call_1", Arg208), InvCall("call_2", ArgNone)>>,
    <<InvCall("call_1", ArgNone), ToolCall("call_2", "other_function", ArgNone)>>,
    <<InvCall("call_1", Arg208), InvCall("call_2", Args("invalid", FNone))>> }

\* What one call of get_available_cars made by the turn finds: the cache is
\* shared with the other turns and time passes (time.sleep(1), line 375), so
\* the call finds the cache empty, fresh or stale, and the feed answers.
Find(cache, time, resp) == [cache |-> cache, time |-> time, resp |-> resp]

ChatFinds ==
  { Find(Cache(0, <<>>), 2 * CACHE_TTL - 1, Response("ok", FeedB)),
    Find(Cache(0, <<>>), 2 * CACHE_TTL - 1, Response("ok", FeedNone)),
    Find(Cache(CACHE_TTL - 1, CollectCars(FeedA)), 2 * CACHE_TTL - 1,
         Response("ConnectionError", <<>>)),
    Find(Cache(CACHE_TTL, CollectCars(FeedA)), 2 * CACHE_TTL - 1,
         Response("ok", FeedB)) }

\* line 356 and the .get of line 359 raise unless the text is a JSON object
DecodeRaises(arguments) == arguments.json # "object"

\* messages.data[0].content[0].text.value
AssistantText == Summary("assistant_text", FNone)

\* line 386:  car_data_result and car_data_result.get('cars')
HasCars(cdr) == cdr # NoResult /\ cdr.cars # <<>>

\* a faulty variant of Rebound: a result with listings is kept when a later
\* query returns
ReboundKeepsListings(held, returned) ==
  IF HasCars(held) THEN held ELSE returned

\* line 359: the name car_data_result is bound to what the call returned,
\* whatever it held
Rebound(held, returned) == returned

\* the history after a query returned
Answered(ans, returned) ==
  [last |-> returned,
   earlier_cars |-> ans.earlier_cars \/ ans.last.cars # <<>>]

\* lines 352-364: the loop over the tool calls, from call i on; finds[i] is
\* what the query of call i finds
RECURSIVE RunToolCalls(_, _, _, _)
RunToolCalls(tool_calls, finds, i, st) ==
  IF i > Len(tool_calls) \/ st.raised THEN st
  ELSE LET tc == tool_calls[i]
       IN  IF tc.name # "get_available_cars"
             THEN RunToolCalls(tool_calls, finds, i + 1, st)
           ELSE IF DecodeRaises(tc.arguments)
             THEN [st EXCEPT !.raised = TRUE]
           ELSE LET r == fetch_all_cars(finds[i].cache, finds[i].time, finds[i].resp)
                    res == get_available_cars(tc.arguments.model_filter, r)
                IN  IF res.raised # "none"
                      THEN [st EXCEPT !.raised = TRUE, !.cache = r.cache,
                                      !.queries = Bump(st.queries)]
                      ELSE RunToolCalls(tool_calls, finds, i + 1,
                             [cache |-> r.cache,
                              car_data_result |-> Rebound(st.car_data_result, res),
                              tool_outputs |->
                                Append(st.tool_outputs,
                                       [tool_call_id |-> tc.id, output |-> res]),
                              raised |-> FALSE,
                              queries |-> Bump(st.queries),
                              answers |-> Answered(st.answers, res)])

\* lines 361-364: the tool_call_id of each output, in order
OutputIds(tool_outputs) ==
  [i \in 1..Len(tool_outputs) |-> tool_outputs[i].tool_call_id]

\* the calls of a batch that reach get_available_cars
Querying(tool_calls) ==
  {i \in 1..Len(tool_calls) :
     /\ tool_calls[i].name = "get_available_cars"
     /\ ~DecodeRaises(tool_calls[i].arguments)}

AnyFind == CHOOSE f \in ChatFinds : TRUE

\* one find for each call that queries (the other places are not read)
FindsFor(tool_calls) ==
  {fs \in [1..Len(tool_calls) -> ChatFinds] :
     \A i \in 1..Len(tool_calls) : i \notin Querying(tool_calls) => fs[i] = AnyFind}

\* the statuses seen so far follow  queued, in_progress, requires_action with
\* one call of get_available_cars, in_progress, completed  (a status may be
\* seen again by the next retrieval, requires_action only once)
OneInventoryCall(tool_calls) ==
  Len(tool_calls) = 1 /\ tool_calls[1].name = "get_available_cars"

ScenNext(sc, st, tool_calls) ==
  CASE sc = "Q" /\ st = "queued" -> "Q"
    [] sc = "Q" /\ st = "in_progress" -> "IP"
    [] sc = "IP" /\ st = "in_progress" -> "IP"
    [] sc = "IP" /\ st = "requires_action" /\ OneInventoryCall(tool_calls) -> "RA"
    [] sc = "RA" /\ st = "in_progress" -> "IP2"
    [] sc = "IP2" /\ st = "in_progress" -> "IP2"
    [] sc = "IP2" /\ st = "completed" -> "C"
    [] OTHER -> "off"

InitChat ==
  /\ CAR_CACHE = Cache(0, <<>>)
  /\ clock = CACHE_TTL
  /\ writer = [timestamp |-> NoTag, cars |-> NoTag]
  /\ pc = [t \in Threads |-> "idle"]
  /\ now = [t \in Threads |-> 0]
  /\ all_cars = [t \in Threads |-> <<>>]
  /\ ret = [t \in Threads |-> NoRet]
  /\ seen = [t \in Threads |-> NoTag]
  /\ calls = [t \in Threads |-> 0]
  /\ ticks = 0
  /\ q = NoQuery
  /\ cpc = "begin"
  /\ is_new_thread \in BOOLEAN
  /\ run_status = ""
  /\ iteration = 0
  /\ car_data_result = NoResult
  /\ response = NoResponse
  /\ transcript = <<>>
  /\ remote = NoRemote
  /\ queries = 0
  /\ answers = NoAnswers
  /\ scen = "off"

notChat == <<writer, pc, now, all_cars, ret, seen, calls, ticks, q>>

\* a faulty variant of LoopCondition: the ceiling is tested one pass too late
LoopConditionOneMore(status, iter) ==
  status \in NonTerminal /\ iter <= max_iterations

\* line 344
LoopCondition(status, iter) ==
  status \in NonTerminal /\ iter < max_iterations

\* a faulty variant of OutcomeKind: whatever is not completed is reported as failed
OutcomeKindNoStall(status) ==
  IF status = "completed" THEN "reply" ELSE "failed"

\* lines 379, 409, 414: the branch taken after the loop
OutcomeKind(status) ==
  IF status = "completed" THEN "reply"
  ELSE IF status = "failed" THEN "failed"
  ELSE "stalled"

\* a faulty variant of ResponseText: the summary of the query is never used
ResponseTextAssistant(cdr) == AssistantText

\* lines 381-387
ResponseText(cdr) == IF HasCars(cdr) THEN cdr.summary ELSE AssistantText

\* lines 419-423: the except clause of chat()
\* the message of line 422 names the exception e
ServerError(e) ==
  /\ response' = [kind |-> "server_error",
                  text |-> [kind |-> "server_error", arg |-> <<e>>],
                  cars |-> <<>>, http |-> 500]
  /\ cpc' = "done"

\* an exception of the assistant service: the request was refused because a
\* run is still active on the thread, or another error of the API
RemoteFaults == {"RateLimited", "APIError"}

RemoteError == \E e \in RemoteFaults : ServerError(e)

\* an exception of the transcript store
StoreError == ServerError("StoreError")

\* an exception of lines 356-359
DispatchError == ServerError("DispatchError")

\* lines 286-297
OpenThread ==
  /\ cpc = "begin"
  /\ \E fault \in {"none", "create", "insert"} :
       IF ~is_new_thread
         THEN cpc' = "add_message" /\ UNCHANGED <<remote, response>>
       ELSE IF fault = "create"
         THEN ServerError("APIError") /\ UNCHANGED remote
       ELSE IF fault = "insert"
         THEN StoreError /\ remote' = [remote EXCEPT !.threads = 1]
       ELSE /\ cpc' = "add_message"
            /\ remote' = [remote EXCEPT !.threads = 1]
            /\ UNCHANGED response
  /\ UNCHANGED <<is_new_thread, run_status, iteration, car_data_result,
                 transcript, queries, answers, scen, CAR_CACHE, clock>>
  /\ UNCHANGED notChat

\* lines 300-301
AddMessage ==
  /\ cpc = "add_message"
  /\ \E fault \in {"none", "thread", "store"} :
       IF fault = "thread"
         THEN RemoteError /\ UNCHANGED <<remote, transcript>>
       ELSE IF fault = "store"
         THEN /\ StoreError
              /\ remote' = [remote EXCEPT !.messages = 1]
              /\ UNCHANGED transcript
       ELSE /\ cpc' = "create_run"
            /\ remote' = [remote EXCEPT !.messages = 1]
            /\ transcript' =
                 Append(transcript, [is_user |-> TRUE, message |-> Summary("user_message", FNone)])
            /\ UNCHANGED response
  /\ UNCHANGED <<is_new_thread, run_status, iteration, car_data_result,
                 queries, answers, scen, CAR_CACHE, clock>>
  /\ UNCHANGED notChat

\* lines 332-342
CreateRun ==
  /\ cpc = "create_run"
  /\ \E st \in Statuses \cup {"fault"} :
       IF st = "fault"
         THEN RemoteError /\ UNCHANGED <<remote, run_status, scen>>
         ELSE /\ cpc' = "poll"
              /\ remote' = [remote EXCEPT !.runs = 1]
              /\ run_status' = st
              /\ scen' = IF st = "queued" THEN "Q" ELSE "off"
              /\ UNCHANGED response
  /\ UNCHANGED <<is_new_thread, iteration, car_data_result, transcript,
                 queries, answers, CAR_CACHE, clock>>
  /\ UNCHANGED notChat

\* lines 344-375: one pass of the loop
Poll ==
  /\ cpc = "poll"
  /\ LoopCondition(run_status, iteration)
  /\ \E st \in Statuses \cup {"fault"} :
       IF st = "fault"
         THEN /\ RemoteError
              /\ remote' = [remote EXCEPT !.retrievals = @ + 1]
              /\ UNCHANGED <<run_status, iteration, car_data_result, queries,
                             answers, scen, CAR_CACHE>>
       ELSE IF st # "requires_action"
         THEN /\ run_status' = st
              /\ remote' = [remote EXCEPT !.retrievals = @ + 1, !.cycle = NoCycle]
              /\ scen' = ScenNext(scen, st, <<>>)
              /\ iteration' = iteration + 1
              /\ UNCHANGED <<cpc, response, car_data_result, queries, answers,
                             CAR_CACHE>>
       ELSE \E tool_calls \in ToolCallLists :
            \E finds \in FindsFor(tool_calls) :
            \E submit_fault \in BOOLEAN :
            \E done \in {RunToolCalls(tool_calls, finds, 1,
                           [cache |-> CAR_CACHE,
                            car_data_result |-> car_data_result,
                            tool_outputs |-> <<>>,
                            raised |-> FALSE,
                            queries |-> queries,
                            answers |-> answers])} :
              /\ run_status' = st
              /\ scen' = ScenNext(scen, st, tool_calls)
              /\ CAR_CACHE' = done.cache
              /\ car_data_result' = done.car_data_result
              /\ queries' = done.queries
              /\ answers' = done.answers
              /\ IF done.raised \/ submit_fault
                   THEN /\ IF done.raised THEN DispatchError ELSE RemoteError
                        /\ remote' =
                             [remote EXCEPT
                                !.retrievals = @ + 1,
                                !.cycle = Cycle(tool_calls, OutputIds(done.tool_outputs),
                                                IF done.raised THEN "skipped"
                                                               ELSE "failed")]
                        /\ UNCHANGED iteration
                   ELSE /\ remote' =
                             [remote EXCEPT
                                !.retrievals = @ + 1,
                                !.submits = Bump(@),
                                !.cycle = Cycle(tool_calls, OutputIds(done.tool_outputs),
                                                "sent")]
                        /\ iteration' = iteration + 1
                        /\ UNCHANGED <<cpc, response>>
  /\ UNCHANGED <<is_new_thread, transcript, clock>>
  /\ UNCHANGED notChat

\* lines 377-417: after the loop
Finish ==
  /\ cpc = "poll"
  /\ ~LoopCondition(run_status, iteration)
  /\ IF OutcomeKind(run_status) = "reply"
       THEN \E fault \in {"none", "list", "store"} :
              IF fault = "list"
                THEN RemoteError /\ UNCHANGED <<remote, transcript>>
              ELSE IF fault = "store"
                THEN /\ StoreError
                     /\ remote' = [remote EXCEPT !.lists = 1]
                     /\ UNCHANGED transcript
              ELSE /\ remote' = [remote EXCEPT !.lists = 1]
                   /\ transcript' =
                        Append(transcript,
                               [is_user |-> FALSE,
                                message |-> ResponseText(car_data_result)])
                   /\ response' =
                        [kind |-> "reply",
                         text |-> ResponseText(car_data_result),
                         cars |-> IF HasCars(car_data_result)
                                    THEN car_data_result.cars ELSE <<>>,
                         http |-> 200]
                   /\ cpc' = "done"
     ELSE IF OutcomeKind(run_status) = "failed"
       THEN /\ response' = [kind |-> "failed", text |-> Summary("run_failed", FNone),
                            cars |-> <<>>, http |-> 200]
            /\ cpc' = "done"
            /\ UNCHANGED <<remote, transcript>>
       ELSE /\ response' = [kind |-> "stalled",
                            text |-> [kind |-> "run_stopped", arg |-> <<run_status>>],
                            cars |-> <<>>, http |-> 200]
            /\ cpc' = "done"
            /\ UNCHANGED <<remote, transcript>>
  /\ UNCHANGED <<is_new_thread, run_status, iteration, car_data_result,
                 queries, answers, scen, CAR_CACHE, clock>>
  /\ UNCHANGED notChat

NextChat ==
  \/ OpenThread
  \/ AddMessage
  \/ CreateRun
  \/ Poll
  \/ Finish

SpecChat == InitChat /\ [][NextChat]_vars

\* every call to the assistant service, to the store and to the feed returns
\* or raises, so a turn that can take a step takes it
SpecChatFair == SpecChat /\ WF_vars(NextChat)

\* with the fairness above, a turn ends
TurnEnds == <>(cpc = "done")

\* ------------------------------------------------------------------------
\* Claims about the polling loop
\* ------------------------------------------------------------------------
AssistantRecords == {i \in 1..Len(transcript) : ~transcript[i].is_user}

\* the steps a turn has left at most: the passes of the loop, then one step
\* for each statement after the position
StepsLeft ==
  CASE cpc = "begin" -> max_iterations - iteration + 4
    [] cpc = "add_message" -> max_iterations - iteration + 3
    [] cpc = "create_run" -> max_iterations - iteration + 2
    [] cpc = "poll" -> max_iterations - iteration + 1
    [] cpc = "done" -> 0

\* C8: whatever statuses the run service returns, a turn retrieves the status
\* at most max_iterations times, and every turn ends by returning a response:
\* a turn that has not returned can always take a step, every step lowers
\* the natural number StepsLeft, and a turn that has ended holds a response.
C8_PollingTerminates ==
  /\ [](remote.retrievals <= max_iterations)
  /\ [](StepsLeft \in Nat)
  /\ [][StepsLeft' < StepsLeft]_vars
  /\ [](cpc # "done" => ENABLED NextChat)
  /\ [](cpc = "done" => response.kind \in {"reply", "failed", "stalled", "server_error"})

\* the run asked for tool outputs at every one of the max_iterations passes
C8_Witness ==
  /\ cpc = "done"
  /\ remote.retrievals = max_iterations
  /\ run_status = "requires_action"
  /\ remote.submits = CountCap
  /\ response.kind = "stalled"

\* C9: a turn that leaves the loop at the ceiling with a non-terminal status
\* answers with the stalled message, which is neither the failed message nor
\* a reply, and writes no assistant row.
C9_StalledOutcome ==
  (cpc = "done" /\ iteration = max_iterations /\ run_status \in NonTerminal)
    => /\ response.kind = "stalled"
       /\ response.text.kind = "run_stopped"
       /\ response.text # Summary("run_failed", FNone)
       /\ response.text # AssistantText
       /\ AssistantRecords = {}

\* a run still in progress after max_iterations passes
C9_Witness ==
  /\ cpc = "done"
  /\ iteration = max_iterations
  /\ run_status = "in_progress"
  /\ response.kind = "stalled"

\* C10: a turn that saw queued, in_progress, requires_action with one call of
\* get_available_cars, in_progress, completed, and whose calls to the service
\* and the store all returned, made exactly one query, submitted exactly one
\* batch and wrote exactly one assistant row; when the query returned
\* listings the row holds its summary, not the assistant's text.
C10_ToolCallScenario ==
  (cpc = "done" /\ scen = "C" /\ response.kind # "server_error")
    => /\ queries = 1
       /\ remote.submits = 1
       /\ Cardinality(AssistantRecords) = 1
       /\ response.kind = "reply"
       /\ HasCars(car_data_result)
            => \A i \in AssistantRecords :
                 /\ transcript[i].message = car_data_result.summary
                 /\ transcript[i].message # AssistantText

\* the scenario with a query that returned listings
C10_Witness ==
  /\ cpc = "done"
  /\ scen = "C"
  /\ HasCars(car_data_result)
  /\ response.kind = "reply"
  /\ response.text = Summary("cars_for", FStr(<<"2", "0", "8">>))

\* ------------------------------------------------------------------------
\* Claims about the rows a turn writes
\* ------------------------------------------------------------------------
UserRecords == {i \in 1..Len(transcript) : transcript[i].is_user}

\* C11: a turn that has ended, whatever its outcome, has written exactly one
\* user row and at most one assistant row.
C11_OneUserRecordPerTurn ==
  cpc = "done"
    => /\ Cardinality(UserRecords) = 1
       /\ Cardinality(AssistantRecords) <= 1

\* ------------------------------------------------------------------------
\* Claims about the tool calls of a pass
\* ------------------------------------------------------------------------
CallIds(tool_calls) == [i \in 1..Len(tool_calls) |-> tool_calls[i].id]

\* C12: the batch a pass submits holds one output for each tool call the run
\* was waiting for, in order: none missing, none twice.
C12_OneResultPerInvocation ==
  remote.cycle.submit = "sent"
    => remote.cycle.answered = CallIds(remote.cycle.tool_calls)

\* C13: a pass that saw requires_action calls submit_tool_outputs, also when
\* handling one of its tool calls raised.
C13_SubmitsAfterDispatchError ==
  remote.cycle # NoCycle => remote.cycle.submit # "skipped"

\* the arguments are no JSON object, or model_filter is missing or no string
BadPayload(arguments) ==
  arguments.json # "object" \/ arguments.model_filter.type # "str"

\* C14: a pass whose one tool call is get_available_cars with a bad payload
\* goes on to submit, and the query it made ran without a filter: its
\* summary is one of the unfiltered ones or reports the feed's failure.
C14_BadPayloadMeansNoFilter ==
  LET c == remote.cycle
  IN  (OneInventoryCall(c.tool_calls) /\ BadPayload(c.tool_calls[1].arguments))
        => /\ c.submit # "skipped"
           /\ car_data_result.summary.kind
                \in {"cars", "no_cars", "error_network", "error_xml"}

\* ------------------------------------------------------------------------
\* Claims about the takeover flag and the refusals of the service
\* ------------------------------------------------------------------------
\* The flag a session carries for a human operator.  chat() reads thread_id
\* and message from the request (lines 287-288) and nothing from the session
\* row, so the turn is the same for either value of the flag.
TakeoverFlags == BOOLEAN

\* C15: in a turn of a session whose takeover flag is set, no message is
\* added to the remote thread, no run is started, no status is retrieved and
\* no assistant row is written.
C15_TakeoverSkipsRun ==
  \A human_takeover \in TakeoverFlags :
    human_takeover
      => /\ remote.messages = 0
         /\ remote.runs = 0
         /\ remote.retrievals = 0
         /\ AssistantRecords = {}

\* C16: a turn ended by the service refusing a request because a run is still
\* active answers with a retry hint, not with the server error of the other
\* exceptions.
C16_RateLimitedIsRetryable ==
  (cpc = "done" /\ response.text.arg = <<"RateLimited">>)
    => /\ response.kind # "server_error"
       /\ response.http # 500

\* ------------------------------------------------------------------------
\* Claims about the text of the reply
\* ------------------------------------------------------------------------
\* C17: the reply of a completed run, as returned and as written to the
\* assistant row, is the summary of the inventory query when the turn made
\* one (whether it found listings, found none or failed), and the assistant's
\* message when the turn made none.
C17_SummaryTakesPrecedence ==
  (cpc = "done" /\ response.kind = "reply")
    => /\ \A i \in AssistantRecords : transcript[i].message = response.text
       /\ queries > 0 => response.text = car_data_result.summary
       /\ queries = 0 => response.text = AssistantText

\* ------------------------------------------------------------------------
\* parse_price on drawn price texts, through one query
\* ------------------------------------------------------------------------
MaxPriceLen == 4
MaxListings == 3

PriceAlphabet == {"1", ",", " ", "nbsp", "L", "V", "E"}

\* the text of <g:description>: every text of 1..MaxPriceLen characters
PriceTexts == UNION {[1..k -> PriceAlphabet] : k \in 1..MaxPriceLen}

\* the descriptions the ranking is exercised with
RankedPrices == {P700, P950b, PTwoCommas, PNoMarker, <<" ">>}

PricedItem(text) == Item("in stock", M208, text, "u1", "i1")

\* feeds of one listing with any text, and of up to MaxListings listings
PricedFeeds ==
  {<<PricedItem(text)>> : text \in PriceTexts}
    \cup {[i \in 1..Len(texts) |-> PricedItem(texts[i])] :
            texts \in SeqsUpTo(RankedPrices, MaxListings)}

\* one unfiltered query on the empty cache for each feed
InitPrice ==
  /\ \E feed \in PricedFeeds :
       q = [phase |-> "input", model_filter |-> FNone,
            resp |-> Response("ok", feed), fetch |-> NoFetch, result |-> NoResult]
  /\ CAR_CACHE = Cache(0, <<>>)
  /\ clock = CACHE_TTL
  /\ writer = [timestamp |-> NoTag, cars |-> NoTag]
  /\ pc = [t \in Threads |-> "idle"]
  /\ now = [t \in Threads |-> 0]
  /\ all_cars = [t \in Threads |-> <<>>]
  /\ ret = [t \in Threads |-> NoRet]
  /\ seen = [t \in Threads |-> NoTag]
  /\ calls = [t \in Threads |-> 0]
  /\ ticks = 0
  /\ ChatIdle

SpecPrice == InitPrice /\ [][NextQuery]_vars

\* the text holds the two letters of the BGN marker next to each other
HasMarker(price_str) ==
  \E i \in 1..(Len(price_str) - 1) : price_str[i] = "L" /\ price_str[i + 1] = "V"

Count(s, c) == Cardinality({i \in 1..Len(s) : s[i] = c})

\* the numeric token before the marker is no number: two decimal commas, or
\* no digit at all
BadToken(price_str) ==
  /\ HasMatch(price_str)
  /\ \/ Count(Group1(price_str), ",") >= 2
     \/ \A i \in 1..Len(Group1(price_str)) : Group1(price_str)[i] \notin Digits

Parseable(cars) == {i \in 1..Len(cars) : parse_price(cars[i].price) # PInf}

\* C18: for every price text of the snapshot parse_price gives a number or
\* positive infinity, and positive infinity when the text is empty, has no
\* BGN marker or has a token that is no number; the query does not fail; it
\* returns min(2, n) of the n listings, no listing of infinite price before
\* one with a parsed price, and a listing of infinite price only once every
\* listing with a parsed price is returned.
C18_UnparseablePriceSortsLast ==
  q.phase = "done"
    => LET cars == q.fetch.ret
           res == q.result.cars
       IN  /\ \A i \in 1..Len(cars) :
                LET price_str == cars[i].price
                    p == parse_price(price_str)
                IN  /\ p = PInf \/ (~p.inf /\ p.v \in Nat)
                    /\ (price_str = <<>> \/ ~HasMarker(price_str) \/ BadToken(price_str))
                         => p = PInf
           /\ q.result.raised = "none"
           /\ q.result.summary.kind \notin ErrorKinds
           /\ Len(res) = IF Len(cars) < 2 THEN Len(cars) ELSE 2
           /\ \A i, j \in 1..Len(res) :
                (i < j /\ parse_price(res[i].price) = PInf)
                  => parse_price(res[j].price) = PInf
           /\ Parseable(res) # 1..Len(res)
                => Cardinality(Parseable(res)) = Cardinality(Parseable(cars))

\* three listings, one with a parsed price: it is returned first, followed by
\* a listing whose marked token has two commas
C18_Witness ==
  /\ q.phase = "done"
  /\ Len(q.fetch.ret) = MaxListings
  /\ Cardinality(Parseable(q.fetch.ret)) = 1
  /\ Len(q.result.cars) = 2
  /\ parse_price(q.result.cars[1].price) # PInf
  /\ BadToken(q.result.cars[2].price)

\* ------------------------------------------------------------------------
\* Claims about the snapshot a fetch builds
\* ------------------------------------------------------------------------
\* a sub-element that is absent or has no text is missing
Missing(field) == field \in {Absent, NoText}
MissingText(field) == field \in {AbsentSeq, NoTextSeq}

\* the listing of an in-stock entry, each missing subfield at its sentinel
ExpectedCar(item) ==
  [model |-> IF MissingText(item.title) THEN <<"N", "/", "A">> ELSE Strip(item.title),
   price |-> IF MissingText(item.description) THEN <<"N", "/", "A">>
             ELSE Strip(item.description),
   link |-> IF Missing(item.link) THEN "#" ELSE item.link,
   image_url |-> IF Missing(item.image_link) THEN "" ELSE item.image_link]

RECURSIVE ExpectedSnapshot(_)
ExpectedSnapshot(items) ==
  IF items = <<>> THEN <<>>
  ELSE IF Head(items).availability = "in stock"
    THEN <<ExpectedCar(Head(items))>> \o ExpectedSnapshot(Tail(items))
    ELSE ExpectedSnapshot(Tail(items))

\* C19: a fetch of a well-formed feed does not fail, and returns and stores,
\* in feed order, the listing of each entry whose availability is 'in stock',
\* every missing subfield at its sentinel.
C19_SnapshotOfInStock ==
  (q.phase = "done" /\ q.fetch.fetched /\ q.resp.kind = "ok")
    => /\ q.fetch.exc = "none"
       /\ q.fetch.ret = ExpectedSnapshot(q.resp.items)
       /\ CAR_CACHE.cars = ExpectedSnapshot(q.resp.items)

\* ------------------------------------------------------------------------
\* Claims about what a query leaves in the cache
\* ------------------------------------------------------------------------
\* C20: a query made while the cache holds listings stored less than
\* CACHE_TTL ago sends no request and leaves the timestamp and the listings
\* of the cache as they were, for every filter; neither a cached nor a
\* returned listing carries numeric_price.
C20_FreshQueryKeepsCache ==
  [][(q.phase = "input" /\ CAR_CACHE.cars # <<>>
        /\ clock - CAR_CACHE.timestamp < CACHE_TTL)
       => /\ CAR_CACHE' = CAR_CACHE
          /\ ~q'.fetch.fetched
          /\ IsListingSeq(CAR_CACHE'.cars)
          /\ IsListingSeq(q'.result.cars)]_vars

\* a filtered query served from a cache of three listings returned two
C20_Witness ==
  /\ q.phase = "done"
  /\ ~q.fetch.fetched
  /\ Len(CAR_CACHE.cars) = 3
  /\ Len(q.result.cars) = 2
  /\ q.model_filter = FStr(<<"2", "0", "8">>)

\* ------------------------------------------------------------------------
\* Claims about a turn with several inventory queries
\* ------------------------------------------------------------------------
\* C21: a turn that made two or more inventory queries and completed with a
\* reply returns the listings and the summary of the latest query; when the
\* latest query returned no listings the reply carries no listings and the
\* text of the assistant, whatever the queries before it returned.
C21_LastQueryWins ==
  (cpc = "done" /\ response.kind = "reply" /\ queries >= 2)
    => /\ response.cars = answers.last.cars
       /\ answers.last.cars # <<>> => response.text = answers.last.summary
       /\ answers.last.cars = <<>> => response.text = AssistantText

\* a completed turn of two or more queries where a query returned listings
\* and the latest one returned none: the reply is the text of the assistant
C21_Witness ==
  /\ cpc = "done"
  /\ response.kind = "reply"
  /\ queries >= 2
  /\ answers.earlier_cars
  /\ answers.last.cars = <<>>
  /\ response.cars = <<>>
  /\ response.text = AssistantText

====
